---- MODULE Spec2Model ----
(***************************************************************************)
(* Sentiment service (services/sentiment-service): the label normalizer,   *)
(* score derivation, result assembly (run_single / run_batch) and the      *)
(* HTTP handlers of app/main.py with the startup lifecycle.                *)
(*                                                                         *)
(* Strings are sequences of one-character strings.  Floats are exact       *)
(* rationals with the fixed denominator ONE: a probability p is kept as    *)
(* the integer p * ONE.  The /analyze score is kept over 2 * ONE.          *)
(***************************************************************************)
EXTENDS Integers, Sequences, FiniteSets, TLC

\* ---------------------------------------------------------------- bounds
Res == 1            \* score grid resolution: scores are multiples of 1/(10*Res)
ScoreSlack == 2     \* grid points generated below 0 and above 1
MaxSuffixLen == 2   \* longest generated label suffix
MaxBatchLen == 2    \* longest freely generated batch
MaxEnts == 4        \* longest entity list returned by the recognizer

Den == 10 * Res
ONE == 2 * Den      \* the float 1.0

\* ---------------------------------------------------------------- strings
LowerChars == <<"a","b","c","d","e","f","g","h","i","j","k","l","m",
                "n","o","p","q","r","s","t","u","v","w","x","y","z">>
UpperChars == <<"A","B","C","D","E","F","G","H","I","J","K","L","M",
                "N","O","P","Q","R","S","T","U","V","W","X","Y","Z">>
Digits == <<"0","1","2","3","4","5","6","7","8","9">>
StarGlyph == "*star*"   \* the character U+2605
Whitespace == {" "}

IndexOf(c, seq) == IF \E i \in 1..Len(seq) : seq[i] = c
                   THEN CHOOSE i \in 1..Len(seq) : seq[i] = c
                   ELSE 0

UpperAt(c, i) == IF i > 0 THEN UpperChars[i] ELSE c
UpperChar(c) == UpperAt(c, IndexOf(c, LowerChars))

\* str.upper()
Upper(s) == [i \in 1..Len(s) |-> UpperChar(s[i])]

\* str.startswith(prefix)
StartsWith(s, prefix) == /\ Len(s) >= Len(prefix)
                         /\ SubSeq(s, 1, Len(prefix)) = prefix

\* s.split("_")[-1]: the part after the last underscore, or all of s
LastSegment(s) ==
    LET us == {i \in 1..Len(s) : s[i] = "_"}
    IN IF us = {} THEN s
       ELSE LET last == CHOOSE i \in us : \A j \in us : j <= i
            IN SubSeq(s, last + 1, Len(s))

\* str.strip()
Strip(s) ==
    LET keep == {i \in 1..Len(s) : s[i] \notin Whitespace}
    IN IF keep = {} THEN <<>>
       ELSE LET lo == CHOOSE i \in keep : \A j \in keep : i <= j
                hi == CHOOSE i \in keep : \A j \in keep : j <= i
            IN SubSeq(s, lo, hi)

RECURSIVE DigitsValue(_)
DigitsValue(ds) == IF ds = <<>> THEN 0
                   ELSE 10 * DigitsValue(SubSeq(ds, 1, Len(ds) - 1))
                        + (IndexOf(ds[Len(ds)], Digits) - 1)

IsDigits(ds) == Len(ds) > 0 /\ \A i \in 1..Len(ds) : IndexOf(ds[i], Digits) > 0

ParseUnsigned(ds, negated) ==
    IF IsDigits(ds)
    THEN [ok |-> TRUE, val |-> IF negated THEN 0 - DigitsValue(ds) ELSE DigitsValue(ds)]
    ELSE [ok |-> FALSE, val |-> 0]

ParseStripped(s) ==
    IF Len(s) > 0 /\ s[1] \in {"+", "-"} THEN ParseUnsigned(Tail(s), s[1] = "-")
    ELSE ParseUnsigned(s, FALSE)

\* int(s): optional sign, then one or more digits; anything else is ValueError
ParseInt(s0) == ParseStripped(Strip(s0))

\* ---------------------------------------------------------------- label constants
NEGATIVE == <<"N","E","G","A","T","I","V","E">>
POSITIVE == <<"P","O","S","I","T","I","V","E">>
NEUTRAL == <<"N","E","U","T","R","A","L">>
LABEL_ == <<"L","A","B","E","L","_">>
LABEL_0 == LABEL_ \o <<"0">>
LABEL_1 == LABEL_ \o <<"1">>
LABEL_2 == LABEL_ \o <<"2">>
STAR == <<"S","T","A","R">>

\* A Python value that is either None or a str
None == [none |-> TRUE, s |-> <<>>]
Str(s) == [none |-> FALSE, s |-> s]

\* An exception propagating out of a call
Raised(kind) == [raised |-> kind]
IsRaised(r) == "raised" \in DOMAIN r

Max(a, b) == IF a >= b THEN a ELSE b

Probs(neg, neu, pos) == [negative |-> neg, neutral |-> neu, positive |-> pos]

\* dict.get("score", 1.0) followed by float()
GetScore(raw_scores) == IF "score" \in DOMAIN raw_scores THEN raw_scores.score ELSE ONE

\* dict.get("label", "")
GetLabel(sent) == IF "label" \in DOMAIN sent THEN sent.label ELSE Str(<<>>)

\* ---------------------------------------------------------------- inference.py
softmax_to_three_from_label_and_score(raw_label, score) ==
    IF raw_label.none THEN Raised("AttributeError")
    ELSE IF Upper(raw_label.s) \in {NEGATIVE, LABEL_0}
         THEN Probs(score, 0, ONE - score)
    ELSE IF Upper(raw_label.s) \in {POSITIVE, LABEL_1, LABEL_2}
         THEN Probs(ONE - score, 0, score)
    ELSE Probs(0, ONE, 0)

Remaining_unclamped(score_val) == ONE - score_val

\* the remaining mass of the neutral branches
Remaining(score_val) == Max(0, ONE - score_val)

GenericBranch_unsplit(label, score_val) ==
    IF label = NEGATIVE THEN Probs(score_val, 0, ONE - score_val)
    ELSE IF label = POSITIVE THEN Probs(ONE - score_val, 0, score_val)
    ELSE Probs(Remaining(score_val), score_val, Remaining(score_val))

\* the generic NEGATIVE / POSITIVE / NEUTRAL branch
GenericBranch(label, score_val) ==
    IF label = NEGATIVE THEN Probs(score_val, 0, ONE - score_val)
    ELSE IF label = POSITIVE THEN Probs(ONE - score_val, 0, score_val)
    ELSE Probs(Remaining(score_val) \div 2, score_val, Remaining(score_val) \div 2)

\* the CardiffNLP LABEL_0 / LABEL_1 / LABEL_2 branch
CardiffBranch(label, score_val) ==
    IF label = LABEL_0 THEN Probs(score_val, 0, ONE - score_val)
    ELSE IF label = LABEL_1
         THEN Probs(Remaining(score_val) \div 2, score_val, Remaining(score_val) \div 2)
    ELSE Probs(ONE - score_val, 0, score_val)

\* stars from the parsed index: idx + 1 within 0..4, else 3; 3 on ValueError
StarsFrom(idx) == IF idx.ok THEN (IF 0 <= idx.val /\ idx.val <= 4 THEN idx.val + 1 ELSE 3) ELSE 3

\* stars parsed from the label's trailing index
StarsOf(label) == StarsFrom(ParseInt(LastSegment(label)))

\* stars to neg/neu/pos
OneHot(stars) == IF stars <= 2 THEN Probs(ONE, 0, 0)
                 ELSE IF stars = 3 THEN Probs(0, ONE, 0)
                 ELSE Probs(0, 0, ONE)

\* the star branch: one-hot collapse
StarBranch(label) == OneHot(StarsOf(label))

IsGeneric(label) == label \in {NEGATIVE, POSITIVE, NEUTRAL}
IsCardiff(label) == label \in {LABEL_0, LABEL_1, LABEL_2}
IsStar(label) == \/ StartsWith(label, <<StarGlyph>>)
                 \/ StartsWith(label, STAR)
                 \/ StartsWith(label, LABEL_)

Dispatch_star_first(label, raw_label, score_val) ==
    IF IsGeneric(label) THEN GenericBranch(label, score_val)
    ELSE IF IsStar(label) THEN StarBranch(label)
    ELSE IF IsCardiff(label) THEN CardiffBranch(label, score_val)
    ELSE softmax_to_three_from_label_and_score(raw_label, score_val)

\* the ordered scheme dispatch on the upper-cased label
Dispatch(label, raw_label, score_val) ==
    IF IsGeneric(label) THEN GenericBranch(label, score_val)
    ELSE IF IsCardiff(label) THEN CardiffBranch(label, score_val)
    ELSE IF IsStar(label) THEN StarBranch(label)
    ELSE softmax_to_three_from_label_and_score(raw_label, score_val)

normalize_to_three_classes(raw_label, raw_scores) ==
    Dispatch(Upper(IF raw_label.none THEN <<>> ELSE raw_label.s), raw_label, GetScore(raw_scores))

score_from_probs_swapped(p) == p.negative - p.positive

score_from_probs(p) == p.positive - p.negative

KeyOrder == <<"negative", "neutral", "positive">>

RECURSIVE MaxFrom(_, _, _, _)
MaxFrom(p, i, best, strict) ==
    IF i > Len(KeyOrder) THEN best
    ELSE LET k == KeyOrder[i]
             better == IF strict THEN p[k] > p[best] ELSE p[k] >= p[best]
         IN MaxFrom(p, i + 1, IF better THEN k ELSE best, strict)

ArgMax_last(p) == MaxFrom(p, 2, KeyOrder[1], FALSE)

\* max(probs, key=probs.get): the first key, in insertion order, of largest value
ArgMax(p) == MaxFrom(p, 2, KeyOrder[1], TRUE)

\* the entity dicts built from doc.ents
EntDicts(ents) == [i \in 1..Len(ents) |->
                     [text |-> ents[i].text, label |-> ents[i].label_,
                      start |-> ents[i].start_char, end |-> ents[i].end_char]]

\* the record built from one sentiment dict and one doc
Record(p, ents) ==
    IF IsRaised(p) THEN p
    ELSE [label |-> ArgMax(p), score |-> score_from_probs(p),
          probs |-> p, entities |-> EntDicts(ents)]

Assemble(sent, ents) == Record(normalize_to_three_classes(GetLabel(sent), sent), ents)

\* a collaborator output item is a dict or a list of dicts
Dict(d) == [kind |-> "dict", d |-> d]
List(l) == [kind |-> "list", l |-> l]

\* run_single, given sent_pipeline(text) and ner_nlp(text).ents
run_single(sent_out, ents) ==
    IF sent_out[1].kind # "dict" THEN Raised("AttributeError")
    ELSE Assemble(sent_out[1].d, ents)

\* run_batch's unwrapping of a per-item list
Unwrap(item) ==
    IF item.kind = "list" /\ Len(item.l) > 0 THEN item.l[1] ELSE item

Min(a, b) == IF a <= b THEN a ELSE b

AssembleItem(sent, ents) ==
    IF sent.kind # "dict" THEN Raised("AttributeError") ELSE Assemble(sent.d, ents)

BatchItem(item, ents) == AssembleItem(Unwrap(item), ents)

\* the loop's outcome: the records, or the exception one of them raised
BatchResult(recs) ==
    IF \E i \in 1..Len(recs) : IsRaised(recs[i]) THEN Raised("AttributeError")
    ELSE [records |-> recs]

run_batch_reversed(txts, sent_outs, ner) ==
    BatchResult([i \in 1..Min(Len(txts), Len(sent_outs)) |->
                    BatchItem(sent_outs[Min(Len(txts), Len(sent_outs)) + 1 - i], ner[txts[i]])])

\* run_batch, given sent_pipeline(texts) and the docs ner_nlp returns per text
run_batch(txts, sent_outs, ner) ==
    BatchResult([i \in 1..Min(Len(txts), Len(sent_outs)) |->
                    BatchItem(sent_outs[i], ner[txts[i]])])

\* ---------------------------------------------------------------- state
VARIABLES
    raw_label,      \* normalize_to_three_classes: argument raw_label
    raw_scores,     \* normalize_to_three_classes: argument raw_scores (a dict)
    probs,          \* normalize_to_three_classes: its outcome, once called
    texts,          \* run_single / run_batch: the input texts
    sent_outputs,   \* what sent_pipeline returned for texts
    ner_docs,       \* what ner_nlp returns, per text
    results,        \* run_single / run_batch: the outcome, once called
    sent_pipeline,  \* main.py global
    ner_nlp,        \* main.py global
    pc,             \* position of the startup hook _load
    env,            \* os.environ (MAX_BATCH)
    req,            \* the HTTP request being handled
    resp            \* the HTTP response to the last handled request

normVars == <<raw_label, raw_scores, probs>>
runVars == <<texts, sent_outputs, ner_docs, results>>
svcVars == <<sent_pipeline, ner_nlp, pc, env, req, resp>>
vars == <<raw_label, raw_scores, probs, texts, sent_outputs, ner_docs, results,
          sent_pipeline, ner_nlp, pc, env, req, resp>>

NotCalled == [pending |-> TRUE]
Unloaded == "None"
Loaded == "loaded"
NoMessage == [endpoint |-> "none"]

NormIdle == /\ raw_label = None
            /\ raw_scores = <<>>
            /\ probs = NotCalled
RunIdle == /\ texts = <<>>
           /\ sent_outputs = <<>>
           /\ ner_docs = <<>>
           /\ results = NotCalled
SvcIdle == /\ sent_pipeline = Unloaded
           /\ ner_nlp = Unloaded
           /\ pc = "start"
           /\ env = <<>>
           /\ req = NoMessage
           /\ resp = NoMessage

\* ---------------------------------------------------------------- normalizer inputs
RECURSIVE SeqsUpTo(_, _)
SeqsUpTo(S, n) == IF n = 0 THEN {<<>>}
                  ELSE LET shorter == SeqsUpTo(S, n - 1)
                       IN shorter \cup {Append(q, c) : q \in shorter, c \in S}

SuffixChars == {"_", "0", "1", "2", "3", "4", "5", "-", "X"}
Prefixes == { <<>>,
              LABEL_, <<"l","a","b","e","l","_">>, <<"L","a","b","e","l","_">>,
              STAR, <<"s","t","a","r","_">>, <<StarGlyph>>,
              <<"F","O","O">>,
              NEGATIVE, <<"n","e","g","a","t","i","v","e">>,
              POSITIVE, <<"P","o","s","i","t","i","v","e">>,
              NEUTRAL, <<"n","e","u","t","r","a","l">> }
LabelStrings == {p \o x : p \in Prefixes, x \in SeqsUpTo(SuffixChars, MaxSuffixLen)}
RawLabels == {Str(l) : l \in LabelStrings} \cup {None}

\* scores k/Den for k in -ScoreSlack .. Den+ScoreSlack, as multiples of 1/ONE
ScoreValues == {2 * k : k \in (0 - ScoreSlack)..(Den + ScoreSlack)}
UnitScoreValues == {v \in ScoreValues : 0 <= v /\ v <= ONE}
ScoreDicts == {[score |-> v] : v \in ScoreValues} \cup {<<>>}

InitNormalize == /\ raw_label \in RawLabels
                 /\ raw_scores \in ScoreDicts
                 /\ probs = NotCalled
                 /\ RunIdle
                 /\ SvcIdle

Normalize == /\ probs = NotCalled
             /\ probs' = normalize_to_three_classes(raw_label, raw_scores)
             /\ UNCHANGED <<raw_label, raw_scores, runVars, svcVars>>

NextNormalize == Normalize

SpecNormalize == InitNormalize /\ [][NextNormalize]_vars

\* ---------------------------------------------------------------- claims on the normalizer
Returned == probs # NotCalled /\ ~IsRaised(probs)
UpperLabel == Upper(IF raw_label.none THEN <<>> ELSE raw_label.s)
ScoreArg == IF "score" \in DOMAIN raw_scores THEN raw_scores.score ELSE ONE
ScoreInUnit == 0 <= ScoreArg /\ ScoreArg <= ONE

\* C1: for every raw label and every score in [0,1] (or a missing score) the
\* returned distribution sums to 1 and each of its three fields lies in [0,1].
C1_SumsToOne ==
    (Returned /\ ScoreInUnit) =>
        /\ probs.negative + probs.neutral + probs.positive = ONE
        /\ \A k \in {"negative", "neutral", "positive"} : 0 <= probs[k] /\ probs[k] <= ONE

C1_Witness == /\ raw_label = Str(<<"n","e","u","t","r","a","l">>)
              /\ raw_scores = [score |-> (4 * ONE) \div 10]
              /\ probs = Probs((3 * ONE) \div 10, (4 * ONE) \div 10, (3 * ONE) \div 10)

\* the one-hot collapse of a star count
StarCollapse(stars) == IF stars <= 2 THEN Probs(ONE, 0, 0)
                       ELSE IF stars = 3 THEN Probs(0, ONE, 0)
                       ELSE Probs(0, 0, ONE)

\* C2: dispatch is first-match-wins, generic then indexed ternary then star:
\* LABEL_0/1/2 get the score-weighted ternary mapping, every other LABEL_<i>
\* gets the star collapse with stars = i+1 for 0<=i<=4 and 3 stars otherwise.
C2_OrderedDispatch ==
    probs # NotCalled =>
        /\ UpperLabel = NEGATIVE => probs = Probs(ScoreArg, 0, ONE - ScoreArg)
        /\ UpperLabel = POSITIVE => probs = Probs(ONE - ScoreArg, 0, ScoreArg)
        /\ UpperLabel = LABEL_0 => probs = Probs(ScoreArg, 0, ONE - ScoreArg)
        /\ UpperLabel = LABEL_2 => probs = Probs(ONE - ScoreArg, 0, ScoreArg)
        /\ UpperLabel \in {LABEL_1, NEUTRAL} =>
              /\ probs.neutral = ScoreArg
              /\ probs.negative = probs.positive
              /\ ScoreArg <= ONE => probs.negative + probs.positive = ONE - ScoreArg
        /\ (StartsWith(UpperLabel, LABEL_) /\ UpperLabel \notin {LABEL_0, LABEL_1, LABEL_2}) =>
              LET i == ParseInt(LastSegment(UpperLabel))
              IN probs = StarCollapse(IF i.ok /\ 0 <= i.val /\ i.val <= 4 THEN i.val + 1 ELSE 3)

C2_Witness == /\ raw_label = Str(LABEL_ \o <<"3">>)
              /\ raw_scores = [score |-> (8 * ONE) \div 10]
              /\ probs = Probs(0, 0, ONE)

\* C5 as stated: no clamping anywhere; NEUTRAL and LABEL_1 give neutral=score
\* and negative=positive=(1-score)/2 for every score, also for score > 1.
C5_NoClampAsStated ==
    (probs # NotCalled /\ UpperLabel \in {NEUTRAL, LABEL_1}) =>
        probs = Probs((ONE - ScoreArg) \div 2, ScoreArg, (ONE - ScoreArg) \div 2)

\* C5 amended: the score itself is never clamped; NEGATIVE/LABEL_0 and
\* POSITIVE/LABEL_2 use score and 1-score exactly as given; NEUTRAL and LABEL_1
\* give neutral=score and negative=positive=max(0, 1-score)/2, which is
\* (1-score)/2 for score <= 1 and 0 for score > 1.
C5_ClampedRemainder ==
    probs # NotCalled =>
        /\ UpperLabel \in {NEGATIVE, LABEL_0} => probs = Probs(ScoreArg, 0, ONE - ScoreArg)
        /\ UpperLabel \in {POSITIVE, LABEL_2} => probs = Probs(ONE - ScoreArg, 0, ScoreArg)
        /\ UpperLabel \in {NEUTRAL, LABEL_1} =>
              /\ probs.neutral = ScoreArg
              /\ ScoreArg <= ONE => /\ probs.negative = (ONE - ScoreArg) \div 2
                                    /\ probs.positive = (ONE - ScoreArg) \div 2
              /\ ScoreArg > ONE => probs.negative = 0 /\ probs.positive = 0

C5_Witness == /\ raw_label = Str(NEUTRAL)
              /\ raw_scores = [score |-> ONE + 4]
              /\ probs = Probs(0, ONE + 4, 0)

\* C6: the normalizer never fails on a malformed label (empty, null,
\* unrecognized, unparsable or out-of-range index): it returns a distribution;
\* no scheme matched gives neutral=1, a bad star index gives neutral=1, and a
\* missing score counts as 1.0.
C6_NeverRaises ==
    (probs # NotCalled /\ ScoreInUnit) =>
        /\ ~IsRaised(probs)
        /\ (~IsGeneric(UpperLabel) /\ ~IsCardiff(UpperLabel) /\ ~IsStar(UpperLabel))
              => probs = Probs(0, ONE, 0)
        /\ (IsStar(UpperLabel) /\ ~IsCardiff(UpperLabel)
              /\ LET i == ParseInt(LastSegment(UpperLabel))
                 IN ~i.ok \/ i.val < 0 \/ i.val > 4)
              => probs = Probs(0, ONE, 0)
        /\ (raw_scores = <<>> /\ UpperLabel = NEGATIVE) => probs = Probs(ONE, 0, 0)


\* ---------------------------------------------------------------- run_single / run_batch inputs
TextA == <<"h","i">>
TextB == <<"o","k">>
TextValues == {TextA, TextB}

Ent(t, l, a, b) == [text |-> t, label_ |-> l, start_char |-> a, end_char |-> b]
Entities == {Ent("Ally", "ORG", 0, 4), Ent("Bob", "PERSON", 8, 11)}
RunEntLists == {<<>>, <<Ent("Ally", "ORG", 0, 4)>>,
                <<Ent("Bob", "PERSON", 8, 11), Ent("Ally", "ORG", 0, 4)>>}

RunLabels == {NEGATIVE, <<"p","o","s","i","t","i","v","e">>, NEUTRAL,
              LABEL_0, <<"l","a","b","e","l","_","1">>, LABEL_2,
              LABEL_ \o <<"3">>, LABEL_ \o <<"1","0">>, STAR \o <<"_","0">>,
              <<"F","O","O">>, <<>>}

\* the dicts the sentiment pipeline returns for one text
SentDicts == {[label |-> Str(l), score |-> v] : l \in RunLabels, v \in ScoreValues}
                \cup {[label |-> Str(l)] : l \in RunLabels}
                \cup {[score |-> v] : v \in UnitScoreValues}

Frac(n) == (n * ONE) \div 10

\* the items a batched pipeline call returns: dicts, or lists wrapping dicts
BatchItems == { Dict([label |-> Str(POSITIVE), score |-> Frac(5)]),
                Dict([label |-> Str(NEGATIVE), score |-> Frac(9)]),
                Dict([score |-> Frac(7)]),
                List(<<Dict([label |-> Str(LABEL_1), score |-> Frac(6)])>>),
                List(<<Dict([label |-> Str(LABEL_ \o <<"3">>), score |-> Frac(8)]),
                       Dict([label |-> Str(NEGATIVE), score |-> ONE])>>) }

Range(f) == {f[i] : i \in DOMAIN f}

\* one output item per text: the pipeline's contract
InitRun == /\ NormIdle
           /\ SvcIdle
           /\ results = NotCalled
           /\ \E n \in 1..MaxBatchLen :
                /\ texts \in [1..n -> TextValues]
                /\ \/ sent_outputs \in [1..n -> BatchItems]
                   \/ n = 1 /\ sent_outputs \in {<<Dict(d)>> : d \in SentDicts}
           /\ ner_docs \in [Range(texts) -> RunEntLists]

RunSingle == /\ results = NotCalled
             /\ Len(texts) = 1
             /\ results' = [call |-> "run_single",
                            value |-> run_single(sent_outputs, ner_docs[texts[1]])]
             /\ UNCHANGED <<texts, sent_outputs, ner_docs, normVars, svcVars>>

RunBatch == /\ results = NotCalled
            /\ results' = [call |-> "run_batch",
                           value |-> run_batch(texts, sent_outputs, ner_docs)]
            /\ UNCHANGED <<texts, sent_outputs, ner_docs, normVars, svcVars>>

NextRun == RunSingle \/ RunBatch

SpecRun == InitRun /\ [][NextRun]_vars

\* ---------------------------------------------------------------- claims on run_single / run_batch
\* the records of the last call, when it returned
RunRecords == IF results = NotCalled \/ IsRaised(results.value) THEN {}
              ELSE IF results.call = "run_single" THEN {results.value}
              ELSE Range(results.value.records)

KeyIndex(k) == CHOOSE i \in 1..3 : KeyOrder[i] = k

\* C3: in every record of run_single and run_batch, label is a key of probs of
\* maximum value, and among several maximal keys the first in the order
\* negative, neutral, positive.
C3_LabelIsFirstArgMax ==
    \A r \in RunRecords :
        /\ r.label \in {"negative", "neutral", "positive"}
        /\ \A k \in {"negative", "neutral", "positive"} :
              /\ r.probs[k] <= r.probs[r.label]
              /\ KeyIndex(k) < KeyIndex(r.label) => r.probs[k] < r.probs[r.label]

C3_Witness == /\ results # NotCalled
              /\ results.call = "run_single"
              /\ sent_outputs = <<Dict([label |-> Str(<<"p","o","s","i","t","i","v","e">>),
                                        score |-> Frac(5)])>>
              /\ ~IsRaised(results.value)
              /\ results.value.probs = Probs(Frac(5), 0, Frac(5))
              /\ results.value.label = "negative"

\* the dict run_batch normalizes for an output item
FirstDict(item) == IF item.kind = "list" THEN item.l[1].d ELSE item.d

\* C4: run_batch returns exactly len(texts) records, in input order; record i
\* carries the entities of the entity call on texts[i] and the distribution of
\* the i-th sentiment output, unwrapped to its first element when it is a list.
C4_BatchOrderAndLength ==
    (results # NotCalled /\ results.call = "run_batch") =>
        /\ ~IsRaised(results.value)
        /\ Len(results.value.records) = Len(texts)
        /\ \A i \in 1..Len(texts) :
              /\ results.value.records[i].entities = EntDicts(ner_docs[texts[i]])
              /\ results.value.records[i].probs =
                    normalize_to_three_classes(GetLabel(FirstDict(sent_outputs[i])),
                                               FirstDict(sent_outputs[i]))

C4_Witness == /\ results # NotCalled
              /\ results.call = "run_batch"
              /\ Len(texts) = 2
              /\ texts[1] # texts[2]
              /\ ner_docs[texts[1]] # ner_docs[texts[2]]
              /\ sent_outputs[1].kind = "list"
              /\ Len(sent_outputs[1].l) = 2
              /\ sent_outputs[2].kind = "dict"
              /\ Len(results.value.records) = 2
              /\ results.value.records[1].probs = Probs(0, 0, ONE)
              /\ results.value.records[2].probs = Probs(Frac(5), 0, Frac(5))


\* ---------------------------------------------------------------- schemas.py, main.py
DefaultMaxBatch == 64
DefaultSpacyModel == "en_core_web_sm"

\* os.environ.get(name) is truthy
EnvSet(e, name) == name \in DOMAIN e /\ e[name] # <<>>

\* int(os.environ.get("MAX_BATCH", "64")), 64 on ValueError
MaxBatchOf(e) ==
    IF "MAX_BATCH" \in DOMAIN e
    THEN LET n == ParseInt(e.MAX_BATCH) IN IF n.ok THEN n.val ELSE DefaultMaxBatch
    ELSE DefaultMaxBatch

\* the "model" field attached to every answer
ModelInfo == [sentiment |-> "", ner |-> DefaultSpacyModel]

\* pydantic: ScoreRequest.text is a required str
ScoreRequestValid(body) == "text" \in DOMAIN body

\* pydantic: BatchScoreRequest.texts is a required list of at least one str
BatchScoreRequestValid(body) == "texts" \in DOMAIN body /\ Len(body.texts) >= 1

\* pydantic: AnalyzeRequest.content is a required str
AnalyzeRequestValid(body) == "content" \in DOMAIN body

NoCalls == [sent |-> <<>>, ner |-> <<>>]
NoReturns == [sent |-> <<>>, ner |-> <<>>]

\* an answer with no collaborator involved
Reply(r, status, body) ==
    [endpoint |-> r.endpoint, request |-> r.body, status |-> status, body |-> body,
     calls |-> NoCalls, returned |-> NoReturns]

\* FastAPI's answer to a request body that fails schema validation
Unprocessable(r) == Reply(r, 422, "validation error")

NotReady_and == sent_pipeline = Unloaded /\ ner_nlp = Unloaded

\* the guard that opens /score, /batch/score and /analyze
NotReady == sent_pipeline = Unloaded \/ ner_nlp = Unloaded

\* ---- startup hook
LoadSentiment == /\ pc = "start"
                 /\ sent_pipeline' = Loaded
                 /\ pc' = "sent_loaded"
                 /\ UNCHANGED <<ner_nlp, env, req, resp, normVars, runVars>>

LoadSentimentFails == /\ pc = "start"
                      /\ pc' = "failed"
                      /\ UNCHANGED <<sent_pipeline, ner_nlp, env, req, resp, normVars, runVars>>

LoadNer == /\ pc = "sent_loaded"
           /\ ner_nlp' = IF EnvSet(env, "CUSTOM_ENTITIES_FILE") THEN "loaded_custom" ELSE Loaded
           /\ pc' = "done"
           /\ UNCHANGED <<sent_pipeline, env, req, resp, normVars, runVars>>

LoadNerFails == /\ pc = "sent_loaded"
                /\ pc' = "failed"
                /\ UNCHANGED <<sent_pipeline, ner_nlp, env, req, resp, normVars, runVars>>

\* ---- requests
TextBodies == {<<>>, <<" ", " ">>, TextA, <<" ">> \o TextB \o <<" ">>}
SvcTextValues == {TextA, <<" ">> \o TextB}
Uniform(n) == [i \in 1..n |-> TextA]
TextLists == UNION {[1..n -> SvcTextValues] : n \in 0..MaxBatchLen}
                \cup {Uniform(DefaultMaxBatch), Uniform(DefaultMaxBatch + 1)}

Requests ==
    {[endpoint |-> "healthz", body |-> <<>>], [endpoint |-> "readyz", body |-> <<>>]}
    \cup {[endpoint |-> "score", body |-> b] : b \in {<<>>} \cup {[text |-> t] : t \in TextBodies}}
    \cup {[endpoint |-> "batch_score", body |-> b] :
             b \in {<<>>} \cup {[texts |-> l] : l \in TextLists}}
    \cup {[endpoint |-> "analyze", body |-> b] :
             b \in {<<>>} \cup {[content |-> t] : t \in TextBodies}}

Receive == /\ req = NoMessage
           /\ req' \in Requests
           /\ resp' = NoMessage
           /\ UNCHANGED <<sent_pipeline, ner_nlp, pc, env, normVars, runVars>>

Answer(r) == /\ resp' = r
             /\ req' = NoMessage
             /\ UNCHANGED <<sent_pipeline, ner_nlp, pc, env, normVars, runVars>>

healthz == /\ req.endpoint = "healthz"
           /\ Answer(Reply(req, 200, [status |-> "ok"]))

readyz == /\ req.endpoint = "readyz"
          /\ Answer(Reply(req, 200,
                [ready |-> (sent_pipeline # Unloaded /\ ner_nlp # Unloaded)]))

\* what the collaborators may return to the handlers
SvcLabels == {POSITIVE, <<"n","e","g","a","t","i","v","e">>, NEUTRAL, LABEL_1,
              LABEL_ \o <<"3">>, <<"F","O","O">>}
SvcSentDicts == {[label |-> Str(l), score |-> v] : l \in SvcLabels, v \in ScoreValues}
                   \cup {[label |-> Str(l)] : l \in SvcLabels}
EntLists == SeqsUpTo(Entities, MaxEnts)
SvcBatchItems == { Dict([label |-> Str(POSITIVE), score |-> Frac(5)]),
                   Dict([label |-> Str(NEUTRAL), score |-> ONE + 2]),
                   List(<<Dict([label |-> Str(LABEL_ \o <<"0">> \o <<"0">>), score |-> Frac(8)])>>) }

\* the answer built from run_single's or run_batch's outcome
Outcome(r, out, body, callArgs, sentRet, nerRet) ==
    IF IsRaised(out)
    THEN [endpoint |-> r.endpoint, request |-> r.body, status |-> 500,
          body |-> "Internal Server Error",
          calls |-> callArgs, returned |-> [sent |-> sentRet, ner |-> nerRet]]
    ELSE [endpoint |-> r.endpoint, request |-> r.body, status |-> 200, body |-> body,
          calls |-> callArgs, returned |-> [sent |-> sentRet, ner |-> nerRet]]

WithModel(rec) == [label |-> rec.label, score |-> rec.score, probs |-> rec.probs,
                   entities |-> rec.entities, model |-> ModelInfo]

ScoreBody(out) == IF IsRaised(out) THEN out ELSE WithModel(out)

ScoreOutcome(text, sent, ents, out) ==
    Answer(Outcome(req, out, ScoreBody(out), [sent |-> <<text>>, ner |-> <<text>>],
                   <<Dict(sent)>>, <<ents>>))

\* the handler past its guards, on the stripped text
ScoreText(text) ==
    IF text = <<>> THEN Answer(Reply(req, 400, "text is required"))
    ELSE \E sent \in SvcSentDicts, ents \in RunEntLists :
            ScoreOutcome(text, sent, ents, run_single(<<Dict(sent)>>, ents))

score ==
    /\ req.endpoint = "score"
    /\ IF ~ScoreRequestValid(req.body) THEN Answer(Unprocessable(req))
       ELSE IF NotReady THEN Answer(Reply(req, 503, "Models not loaded yet"))
       ELSE ScoreText(Strip(req.body.text))

BatchBody(out) ==
    IF IsRaised(out) THEN out
    ELSE [i \in 1..Len(out.records) |-> WithModel(out.records[i])]

BatchOutcome(txts, outs, ner, out) ==
    Answer(Outcome(req, out, BatchBody(out), [sent |-> <<txts>>, ner |-> txts],
                   outs, [i \in 1..Len(txts) |-> ner[txts[i]]]))

\* what sent_pipeline may return for n texts
BatchOutputs(n) == IF n <= MaxBatchLen THEN [1..n -> SvcBatchItems]
                   ELSE {[i \in 1..n |-> it] : it \in SvcBatchItems}

\* the handler past its guards, on the list of texts
BatchTexts(txts) ==
    IF txts = <<>> THEN Answer(Reply(req, 400, "texts[] is required"))
    ELSE IF Len(txts) > MaxBatchOf(env) THEN Answer(Reply(req, 413, "Max batch"))
    ELSE \E outs \in BatchOutputs(Len(txts)), ner \in [Range(txts) -> RunEntLists] :
            BatchOutcome(txts, outs, ner, run_batch(txts, outs, ner))

batch_score ==
    /\ req.endpoint = "batch_score"
    /\ IF ~BatchScoreRequestValid(req.body) THEN Answer(Unprocessable(req))
       ELSE IF NotReady THEN Answer(Reply(req, 503, "Models not loaded yet"))
       ELSE BatchTexts(req.body.texts)

\* sentiment_score = (score + 1) / 2, kept over the denominator 2 * ONE
Rescale(sc) == sc + ONE

Framing_inclusive(score_01) ==
    IF 10 * score_01 >= 7 * (2 * ONE) THEN "Positive"
    ELSE IF 10 * score_01 <= 3 * (2 * ONE) THEN "Negative"
    ELSE "Neutral"

\* the rationale's opening word
Framing(score_01) ==
    IF 10 * score_01 > 7 * (2 * ONE) THEN "Positive"
    ELSE IF 10 * score_01 < 3 * (2 * ONE) THEN "Negative"
    ELSE "Neutral"

\* ", ".join(names)
RECURSIVE Join(_)
Join(names) == IF Len(names) = 0 THEN <<>>
               ELSE IF Len(names) = 1 THEN names
               ELSE <<names[1], ", ">> \o Join(Tail(names))

RationaleHead(score_01, sentiment_label, entity_count) ==
    <<Framing(score_01), " sentiment (", sentiment_label, ") with ",
      entity_count, " entities identified">>

\* [e["text"] for e in entities[:3]]
EntityNames(entities) == [i \in 1..Min(3, Len(entities)) |-> entities[i].text]

\* the rationale, as the sequence of the f-string's pieces
Rationale(score_01, sentiment_label, entities) ==
    IF Len(entities) > 0
    THEN RationaleHead(score_01, sentiment_label, Len(entities))
            \o <<". Key entities: ">> \o Join(EntityNames(entities))
    ELSE RationaleHead(score_01, sentiment_label, Len(entities))

AnalyzeFields(score_01, out) ==
    [score |-> score_01,
     rationale |-> Rationale(score_01, out.label, out.entities),
     sentiment |-> out.label,
     entities |-> out.entities,
     model |-> ModelInfo]

AnalyzeBody(out) == IF IsRaised(out) THEN out ELSE AnalyzeFields(Rescale(out.score), out)

AnalyzeOutcome(content, sent, ents, out) ==
    Answer(Outcome(req, out, AnalyzeBody(out), [sent |-> <<content>>, ner |-> <<content>>],
                   <<Dict(sent)>>, <<ents>>))

\* the handler past its guards, on the stripped content
AnalyzeContent(content) ==
    IF content = <<>> THEN Answer(Reply(req, 400, "content is required"))
    ELSE \E sent \in SvcSentDicts, ents \in EntLists :
            AnalyzeOutcome(content, sent, ents, run_single(<<Dict(sent)>>, ents))

analyze ==
    /\ req.endpoint = "analyze"
    /\ IF ~AnalyzeRequestValid(req.body) THEN Answer(Unprocessable(req))
       ELSE IF NotReady THEN Answer(Reply(req, 503, "Models not loaded yet"))
       ELSE AnalyzeContent(Strip(req.body.content))

EnvValues == { <<>>,
               [MAX_BATCH |-> <<"1">>],
               [MAX_BATCH |-> <<"a","b","c">>],
               [MAX_BATCH |-> <<"0">>, CUSTOM_ENTITIES_FILE |-> <<"e",".","j","s","o","n","l">>] }

Init == /\ NormIdle
        /\ RunIdle
        /\ sent_pipeline = Unloaded
        /\ ner_nlp = Unloaded
        /\ pc = "start"
        /\ env \in EnvValues
        /\ req = NoMessage
        /\ resp = NoMessage

Next == \/ LoadSentiment
        \/ LoadSentimentFails
        \/ LoadNer
        \/ LoadNerFails
        \/ Receive
        \/ healthz
        \/ readyz
        \/ score
        \/ batch_score
        \/ analyze

Spec == Init /\ [][Next]_vars


\* ---------------------------------------------------------------- claims on the service
\* a step in which a handler answers the request in flight
Handled == req # NoMessage /\ req' = NoMessage
BothLoaded == sent_pipeline # Unloaded /\ ner_nlp # Unloaded
Guarded == {"score", "batch_score", "analyze"}
SchemaValid(r) == \/ r.endpoint = "score" /\ ScoreRequestValid(r.body)
                  \/ r.endpoint = "batch_score" /\ BatchScoreRequestValid(r.body)
                  \/ r.endpoint = "analyze" /\ AnalyzeRequestValid(r.body)

\* C7: in every lifecycle state /readyz reports ready exactly when both models
\* have finished loading; /score, /batch/score and /analyze answer a
\* schema-valid request with 503 exactly when /readyz would report false, and
\* then call no collaborator; once both are loaded no request is answered 503.
C7_ReadinessGate ==
    [][ /\ BothLoaded <=> pc = "done"
        /\ BothLoaded => BothLoaded'
        /\ (Handled /\ req.endpoint = "readyz") => resp'.body.ready = BothLoaded
        /\ (Handled /\ req.endpoint \in Guarded /\ SchemaValid(req)) =>
              /\ resp'.status = 503 <=> ~BothLoaded
              /\ resp'.status = 503 => resp'.calls = NoCalls
        /\ (Handled /\ BothLoaded) => resp'.status # 503 ]_vars

C7_Witness == /\ pc = "failed"
              /\ sent_pipeline = Loaded
              /\ ner_nlp = Unloaded
              /\ resp # NoMessage
              /\ resp.endpoint = "analyze"
              /\ resp.request = [content |-> TextA]
              /\ resp.status = 503

Blank(t) == Strip(t) = <<>>

\* C8: a /score request whose text is absent, empty or whitespace-only is
\* answered 400 (503 while the models are not loaded) and never reaches
\* inference; with models loaded /batch/score answers an empty list with 400, a
\* list longer than MAX_BATCH (64 when unset or not an integer) with 413, and
\* processes every list of 1..MAX_BATCH texts.
C8_ClientErrorCategories ==
    [][ /\ (Handled /\ req.endpoint = "score"
               /\ ("text" \notin DOMAIN req.body \/ Blank(req.body.text))) =>
              /\ resp'.status = (IF BothLoaded THEN 400 ELSE 503)
              /\ resp'.calls = NoCalls
        /\ (Handled /\ req.endpoint = "batch_score" /\ BothLoaded
               /\ "texts" \in DOMAIN req.body) =>
              LET n == Len(req.body.texts)
                  max_batch == IF "MAX_BATCH" \in DOMAIN env /\ ParseInt(env.MAX_BATCH).ok
                               THEN ParseInt(env.MAX_BATCH).val ELSE 64
              IN /\ n = 0 => resp'.status = 400
                 /\ n > max_batch => resp'.status = 413
                 /\ (1 <= n /\ n <= max_batch) =>
                       resp'.status = 200 /\ Len(resp'.body) = n ]_vars

\* the dict a logged sentiment output was normalized from
LoggedDict(item) == IF item.kind = "list" THEN item.l[1].d ELSE item.d
LoggedScoreInUnit(item) ==
    LET d == LoggedDict(item)
    IN "score" \in DOMAIN d => (0 <= d.score /\ d.score <= ONE)
LoggedStar(item) ==
    LET l == Upper(LoggedDict(item).label.s)
    IN ~IsGeneric(l) /\ ~IsCardiff(l) /\ IsStar(l)

\* the score/probs records of an answer, each with the sentiment output it came from
AnsweredRecords ==
    IF resp = NoMessage \/ resp.status # 200 THEN {}
    ELSE IF resp.endpoint = "score" THEN {[rec |-> resp.body, from |-> resp.returned.sent[1]]}
    ELSE IF resp.endpoint = "batch_score"
         THEN {[rec |-> resp.body[i], from |-> resp.returned.sent[i]] : i \in 1..Len(resp.body)}
    ELSE {}

\* C9: for every record produced from a raw score in [0,1], score equals
\* probs.positive - probs.negative and lies in [-1,1]; a star-collapsed label
\* gives exactly -1, 0 or 1; and the /analyze score (score+1)/2 lies in [0,1].
C9_ScoreRange ==
    /\ \A a \in AnsweredRecords :
          /\ LoggedScoreInUnit(a.from) =>
                /\ a.rec.score = a.rec.probs.positive - a.rec.probs.negative
                /\ 0 - ONE <= a.rec.score /\ a.rec.score <= ONE
          /\ LoggedStar(a.from) => a.rec.score \in {0 - ONE, 0, ONE}
    /\ (resp # NoMessage /\ resp.endpoint = "analyze" /\ resp.status = 200) =>
          /\ LoggedScoreInUnit(resp.returned.sent[1]) =>
                (0 <= resp.body.score /\ resp.body.score <= 2 * ONE)
          /\ LoggedStar(resp.returned.sent[1]) => resp.body.score \in {0, ONE, 2 * ONE}

C9_Witness == /\ resp # NoMessage
              /\ resp.endpoint = "score"
              /\ resp.status = 200
              /\ resp.returned.sent[1] = Dict([label |-> Str(<<"n","e","g","a","t","i","v","e">>),
                                               score |-> Frac(9)])
              /\ resp.body.score = 0 - Frac(8)

\* C10: /analyze computes score_01 = (score+1)/2; the rationale opens with the
\* positive framing iff score_01 > 0.7, the negative iff score_01 < 0.3, the
\* neutral otherwise; it states the label and the total entity count, and
\* appends the texts of the first min(3, count) entities in order, or nothing
\* when there are none.
C10_Rationale ==
    (resp # NoMessage /\ resp.endpoint = "analyze" /\ resp.status = 200) =>
        LET d == resp.returned.sent[1].d
            p == normalize_to_three_classes(GetLabel(d), d)
            ents == resp.returned.ner[1]
            r == resp.body.rationale
            count == Len(ents)
            shown == IF count < 3 THEN count ELSE 3
        IN /\ resp.body.score = (p.positive - p.negative) + ONE
           /\ r[1] = "Positive" <=> 10 * resp.body.score > 14 * ONE
           /\ r[1] = "Negative" <=> 10 * resp.body.score < 6 * ONE
           /\ r[1] = "Neutral" <=> (6 * ONE <= 10 * resp.body.score /\ 10 * resp.body.score <= 14 * ONE)
           /\ r[3] = resp.body.sentiment
           /\ r[5] = count
           /\ count = 0 => Len(r) = 6
           /\ count > 0 =>
                 /\ Len(r) = 6 + 2 * shown
                 /\ \A i \in 1..shown : r[6 + 2 * i] = ents[i].text

C10_Witness == /\ resp # NoMessage
               /\ resp.endpoint = "analyze"
               /\ resp.status = 200
               /\ 10 * resp.body.score = 14 * ONE
               /\ resp.body.rationale[1] = "Neutral"
               /\ Len(resp.returned.ner[1]) = 4
               /\ resp.returned.ner[1][1] # resp.returned.ner[1][4]
               /\ Len(resp.body.rationale) = 12

====
